---- MODULE Spec2Model ----
(***************************************************************************)
(* A model of pyphi/utils.py: the bit-order conventions for state indices, *)
(* the enumeration of bipartitions, the connectivity-matrix operations,    *)
(* the state-by-state to state-by-node conversion, TPM conditioning and    *)
(* marginalization, the uniform and maximum-entropy distributions, the     *)
(* Hamming matrix and the Hamming EMD, np_hash and the memoized functions; *)
(* and of the decoder of pyphi/jsonify.py.                                 *)
(*                                                                         *)
(* Tuples are 1-based here and 0-based in Python: element k (Python) of a  *)
(* tuple t is t[k + 1].  Node indices, bit positions and state indices     *)
(* keep their Python values (0-based).                                     *)
(***************************************************************************)
EXTENDS Integers, Sequences, FiniteSets, TLC

VARIABLES
    \* bipartition_indices(N): argument, loop counters, locals, return value
    bi_N, bi_i, bi_n, part, result, bi_pc,
    \* pyphi_index2state / natural_index2state: arguments and returned tuples
    ix_i, number_of_nodes, loli, holi, ix_called,
    \* connectivity matrices: the array objects, the reference the last call
    \* returned, the last call, the argument's entries when it was made
    heap, cm_ret, cm_call, cm_before, cm_pc,
    \* state_by_state2state_by_node: the argument (as np.array), the array
    \* returned, the message of the ValueError raised, the position
    tpm, sbn_tpm, tpm_error, tpm_pc,
    \* condition_tpm: the arguments, the array returned, the position
    cond_tpm, fixed_nodes, cond_state, conditioned, cond_pc,
    \* marginalize_out: the arguments (tpm, node.index), the array returned
    marg_tpm, node_index, marginalized, marg_pc,
    \* uniform_distribution / max_entropy_distribution: the arguments and the
    \* arrays returned
    dist_n, node_indices, uniform, max_entropy, dist_called,
    \* _hamming_matrix(N): the argument, the local, the matrix returned
    ham_N, possible_states, hamming_matrix, ham_pc,
    \* hamming_emd: two repertoires, the distances returned for (d1, d2) and
    \* for (d2, d1)
    emd_d1, emd_d2, emd_12, emd_21, emd_called,
    \* np_hash: two array objects, the hashes returned for them and for None
    hash_a, hash_b, hash_of_a, hash_of_b, hash_again, hash_of_none, hash_called,
    \* @lru_cache: the stores, the last call of a memoized function, its value
    cache, cached_call, cached_return,
    \* jsonify.loads: the stream, the classes with from_json, the outcome
    json_string, has_from_json, json_result, json_pc

biVars == <<bi_N, bi_i, bi_n, part, result, bi_pc>>
ixVars == <<ix_i, number_of_nodes, loli, holi, ix_called>>
cmVars == <<heap, cm_ret, cm_call, cm_before, cm_pc>>
tpmVars == <<tpm, sbn_tpm, tpm_error, tpm_pc>>
condVars == <<cond_tpm, fixed_nodes, cond_state, conditioned, cond_pc>>
margVars == <<marg_tpm, node_index, marginalized, marg_pc>>
distVars == <<dist_n, node_indices, uniform, max_entropy, dist_called>>
hamVars == <<ham_N, possible_states, hamming_matrix, ham_pc>>
emdVars == <<emd_d1, emd_d2, emd_12, emd_21, emd_called>>
hashVars == <<hash_a, hash_b, hash_of_a, hash_of_b, hash_again, hash_of_none, hash_called>>
cacheVars == <<cache, cached_call, cached_return>>
jsonVars == <<json_string, has_from_json, json_result, json_pc>>
vars == <<biVars, ixVars, cmVars, tpmVars, condVars, margVars, distVars, hamVars, emdVars, hashVars, cacheVars, jsonVars>>

\* What the operations of one component leave alone.
biOthers == <<ixVars, cmVars, tpmVars, condVars, margVars, distVars, hamVars, emdVars, hashVars, cacheVars, jsonVars>>
ixOthers == <<biVars, cmVars, tpmVars, condVars, margVars, distVars, hamVars, emdVars, hashVars, cacheVars, jsonVars>>
cmOthers == <<biVars, ixVars, tpmVars, condVars, margVars, distVars, hamVars, emdVars, hashVars, cacheVars, jsonVars>>
tpmOthers == <<biVars, ixVars, cmVars, condVars, margVars, distVars, hamVars, emdVars, hashVars, cacheVars, jsonVars>>
condOthers == <<biVars, ixVars, cmVars, tpmVars, margVars, distVars, hamVars, emdVars, hashVars, cacheVars, jsonVars>>
margOthers == <<biVars, ixVars, cmVars, tpmVars, condVars, distVars, hamVars, emdVars, hashVars, cacheVars, jsonVars>>
distOthers == <<biVars, ixVars, cmVars, tpmVars, condVars, margVars, hamVars, emdVars, hashVars, cacheVars, jsonVars>>
hamOthers == <<biVars, ixVars, cmVars, tpmVars, condVars, margVars, distVars, emdVars, hashVars, cacheVars, jsonVars>>
emdOthers == <<biVars, ixVars, cmVars, tpmVars, condVars, margVars, distVars, hamVars, hashVars, cacheVars, jsonVars>>
hashOthers == <<biVars, ixVars, cmVars, tpmVars, condVars, margVars, distVars, hamVars, emdVars, cacheVars, jsonVars>>
cacheOthers == <<biVars, ixVars, cmVars, tpmVars, condVars, margVars, distVars, hamVars, emdVars, hashVars, jsonVars>>
jsonOthers == <<biVars, ixVars, cmVars, tpmVars, condVars, margVars, distVars, hamVars, emdVars, hashVars, cacheVars>>

\* Largest N given to bipartition_indices.
MaxN == 5
\* Largest number_of_nodes given to the index conversions.
MaxNodes == 4
\* Largest number of nodes of a connectivity matrix.
MaxCmNodes == 2
\* Largest number of nodes of a state-by-state TPM (2^MaxTpmNodes states).
MaxTpmNodes == 2
\* Largest number of nodes of a TPM given to condition_tpm.
MaxCondNodes == 2
\* Largest number of axes of an array given to marginalize_out.
MaxMargAxes == 2
\* Largest number_of_nodes given to the distribution constructors.
MaxDistNodes == 4
\* Largest N given to _hamming_matrix.
MaxHamNodes == 6
\* Largest number of axes of a repertoire given to hamming_emd, and the
\* number of units of mass of a repertoire.
MaxEmdAxes == 2
EmdMass == 2
\* Largest number of elements of an array given to np_hash.
MaxHashSize == 4
\* Largest N given to a memoized function.
MaxCacheArg == 2
\* Largest nesting depth of a JSON stream given to loads.
MaxJsonDepth == 2
\* Probabilities are fixed-point numbers: the value 1.0 is One units.
One == 8
\* constants.PRECISION, the absolute tolerance, in the same units.
PRECISION == 2

(***************************************************************************)
(* Shared helpers                                                          *)
(***************************************************************************)
\* Python's  (i >> n) & 1  for i >= 0.
BitMutant(i, n) == (i \div (2 ^ (n + 1))) % 2
Bit(i, n) == (i \div (2 ^ n)) % 2

\* Python's  t[::-1].
Reverse(t) == [k \in 1..Len(t) |-> t[Len(t) + 1 - k]]

\* The ascending tuple of a finite set of integers.
RECURSIVE Ascending(_)
Ascending(S) ==
    IF S = {} THEN <<>>
    ELSE LET m == CHOOSE x \in S : \A y \in S : y <= x
         IN  Append(Ascending(S \ {m}), m)

Range(t) == {t[k] : k \in 1..Len(t)}

(***************************************************************************)
(* bipartition_indices, statement by statement                             *)
(***************************************************************************)
\* range(2 ** (N - 1)): the number of masks the outer loop visits.
NumMasksMutant(N) == 2 ^ N
NumMasks(N) == 2 ^ (N - 1)

\* (tuple(part[1]), tuple(part[0])): part[bit] in Python is p[bit + 1] here.
EntryMutant(p) == <<p[1], p[2]>>
Entry(p) == <<p[2], p[1]>>

BiIdle ==
    /\ bi_N = 0 /\ bi_i = 0 /\ bi_n = 0
    /\ part = <<>> /\ result = <<>> /\ bi_pc = "idle"

BiInit ==
    /\ bi_N \in 0..MaxN
    /\ bi_i = 0 /\ bi_n = 0
    /\ part = <<>> /\ result = <<>>
    /\ bi_pc = "call"

\* result = []; if N <= 0: return result
BiEnter ==
    /\ bi_pc = "call"
    /\ result' = <<>>
    /\ bi_i' = 0
    /\ bi_pc' = IF bi_N <= 0 THEN "done" ELSE "outer"
    /\ UNCHANGED <<bi_N, bi_n, part>>
    /\ UNCHANGED biOthers

\* for i in range(2 ** (N - 1)): part = [[], []] ... ; after the loop: return
BiOuter ==
    /\ bi_pc = "outer"
    /\ IF bi_i < NumMasks(bi_N)
       THEN /\ part' = <<<<>>, <<>>>>
            /\ bi_n' = 0
            /\ bi_pc' = "inner"
       ELSE /\ bi_pc' = "done"
            /\ UNCHANGED <<part, bi_n>>
    /\ UNCHANGED <<bi_N, bi_i, result>>
    /\ UNCHANGED biOthers

\* for n in range(N): bit = (i >> n) & 1; part[bit].append(n)
\* after the loop: result.append((tuple(part[1]), tuple(part[0])))
BiInner ==
    /\ bi_pc = "inner"
    /\ IF bi_n < bi_N
       THEN /\ LET bit == Bit(bi_i, bi_n)
               IN  part' = [part EXCEPT ![bit + 1] = Append(@, bi_n)]
            /\ bi_n' = bi_n + 1
            /\ UNCHANGED <<bi_i, result, bi_pc>>
       ELSE /\ result' = Append(result, Entry(part))
            /\ bi_i' = bi_i + 1
            /\ bi_pc' = "outer"
            /\ UNCHANGED <<part, bi_n>>
    /\ UNCHANGED bi_N
    /\ UNCHANGED biOthers

BiNext == BiEnter \/ BiOuter \/ BiInner

(***************************************************************************)
(* pyphi_index2state (LOLI) and natural_index2state (HOLI)                 *)
(***************************************************************************)
\* tuple((i >> n) & 1 for n in range(number_of_nodes))
pyphi_index2stateMutant(i, n) == [k \in 1..n |-> BitMutant(i, k - 1)]
pyphi_index2state(i, n) == [k \in 1..n |-> Bit(i, k - 1)]

\* pyphi_index2state(i, number_of_nodes)[::-1]
natural_index2stateMutant(i, n) == pyphi_index2state(i, n)
natural_index2state(i, n) == Reverse(pyphi_index2state(i, n))

IxIdle ==
    /\ ix_i = 0 /\ number_of_nodes = 0
    /\ loli = <<>> /\ holi = <<>> /\ ix_called = {}

IxInit ==
    /\ number_of_nodes \in 0..MaxNodes
    /\ ix_i \in 0..(2 ^ number_of_nodes - 1)
    /\ loli = <<>> /\ holi = <<>> /\ ix_called = {}

CallPyphiIndex2State ==
    /\ "loli" \notin ix_called
    /\ loli' = pyphi_index2state(ix_i, number_of_nodes)
    /\ ix_called' = ix_called \cup {"loli"}
    /\ UNCHANGED <<ix_i, number_of_nodes, holi>>
    /\ UNCHANGED ixOthers

CallNaturalIndex2State ==
    /\ "holi" \notin ix_called
    /\ holi' = natural_index2state(ix_i, number_of_nodes)
    /\ ix_called' = ix_called \cup {"holi"}
    /\ UNCHANGED <<ix_i, number_of_nodes, loli>>
    /\ UNCHANGED ixOthers

IxNext == CallPyphiIndex2State \/ CallNaturalIndex2State

(***************************************************************************)
(* Connectivity matrices: apply_cut, apply_boundary_conditions_to_cm,      *)
(* get_inputs_from_cm, get_outputs_from_cm                                 *)
(*                                                                         *)
(* A matrix is an array object on the heap, reached through a reference    *)
(* (its position in heap); m[i][j] is the entry of row i and column j.     *)
(* Between two calls the caller keeps one array, the next call's argument, *)
(* which is then the object 1.                                             *)
(***************************************************************************)
Matrices(n) == [0..(n - 1) -> [0..(n - 1) -> {0, 1}]]

\* cut is None, or an object with the attributes severed and intact.
NoneCut == [none |-> TRUE, severed |-> {}, intact |-> {}]
Cuts(n) == {NoneCut} \cup [none : {FALSE}, severed : SUBSET (0..(n - 1)),
                           intact : SUBSET (0..(n - 1))]

\* connectivity_matrix.copy(): a new object with the same entries.
CopyOfMutant(h, ref) == [heap |-> h, ref |-> ref]
CopyOf(h, ref) == [heap |-> Append(h, h[ref]), ref |-> Len(h) + 1]

\* for i in cut.severed: for j in cut.intact: the cells cm[i][j] written.
CutCellsMutant(cut) == cut.intact \X cut.severed
CutCells(cut) == cut.severed \X cut.intact

\* cm[i] = 0 and cm[:, i] = 0 for i in external_indices: the cells written.
BoundaryCellsMutant(external_indices, n) ==
    {c \in (0..(n - 1)) \X (0..(n - 1)) : c[1] \in external_indices}
BoundaryCells(external_indices, n) ==
    {c \in (0..(n - 1)) \X (0..(n - 1)) :
        c[1] \in external_indices \/ c[2] \in external_indices}

\* The in-place writes  cm[i][j] = 0  for the given cells of the object ref.
ZeroCells(h, ref, cells) ==
    [h EXCEPT ![ref] =
        [i \in DOMAIN @ |-> [j \in DOMAIN @[i] |->
            IF <<i, j>> \in cells THEN 0 ELSE @[i][j]]]]

\* apply_cut(cut, connectivity_matrix): the heap afterwards and the
\* reference returned.
apply_cut(cut, connectivity_matrix, h) ==
    IF cut.none
    THEN [heap |-> h, ref |-> connectivity_matrix]
    ELSE LET cm == CopyOf(h, connectivity_matrix)
         IN  [heap |-> ZeroCells(cm.heap, cm.ref, CutCells(cut)), ref |-> cm.ref]

\* apply_boundary_conditions_to_cm(external_indices, connectivity_matrix)
apply_boundary_conditions_to_cm(external_indices, connectivity_matrix, h) ==
    LET cm == CopyOf(h, connectivity_matrix)
        n  == Cardinality(DOMAIN h[connectivity_matrix])
    IN  [heap |-> ZeroCells(cm.heap, cm.ref, BoundaryCells(external_indices, n)),
         ref |-> cm.ref]

\* tuple(i for i in range(shape[0]) if connectivity_matrix[i][index])
get_inputs_from_cm(index, m) == Ascending({i \in DOMAIN m : m[i][index] # 0})

\* tuple(i for i in range(shape[0]) if connectivity_matrix[index][i])
get_outputs_from_cm(index, m) == Ascending({i \in DOMAIN m : m[index][i] # 0})

NoCall == [op |-> "none", cut |-> NoneCut, external_indices |-> {}]

CmIdle ==
    /\ heap = <<>> /\ cm_ret = 0 /\ cm_call = NoCall
    /\ cm_before = <<>> /\ cm_pc = "idle"

CmInit ==
    /\ \E n \in 1..MaxCmNodes : \E m \in Matrices(n) : heap = <<m>>
    /\ cm_ret = 0 /\ cm_call = NoCall
    /\ cm_before = <<>> /\ cm_pc = "ready"

\* The array the caller passes: the one it starts with, then the one the last
\* call returned (every matrix is a starting matrix).
CmArguments == IF cm_ret = 0 THEN {1} ELSE {cm_ret}

ApplyCut ==
    /\ cm_pc \in {"ready", "returned"}
    /\ \E a \in CmArguments :
       \E cut \in Cuts(Cardinality(DOMAIN heap[a])) :
          LET r == apply_cut(cut, 1, <<heap[a]>>)
          IN  /\ heap' = r.heap
              /\ cm_ret' = r.ref
              /\ cm_call' = [op |-> "apply_cut", cut |-> cut, external_indices |-> {}]
              /\ cm_before' = heap[a]
    /\ cm_pc' = "returned"
    /\ UNCHANGED cmOthers

ApplyBoundaryConditions ==
    /\ cm_pc \in {"ready", "returned"}
    /\ \E a \in CmArguments :
       \E external_indices \in SUBSET (DOMAIN heap[a]) :
          LET r == apply_boundary_conditions_to_cm(external_indices, 1, <<heap[a]>>)
          IN  /\ heap' = r.heap
              /\ cm_ret' = r.ref
              /\ cm_call' = [op |-> "apply_boundary_conditions_to_cm",
                             cut |-> NoneCut, external_indices |-> external_indices]
              /\ cm_before' = heap[a]
    /\ cm_pc' = "returned"
    /\ UNCHANGED cmOthers

\* The caller writes in place into the array it was handed back.
WriteReturned ==
    /\ cm_pc = "returned"
    /\ \E i, j \in DOMAIN heap[cm_ret] :
          heap' = [heap EXCEPT ![cm_ret][i][j] = 1 - @]
    /\ cm_pc' = "written"
    /\ UNCHANGED <<cm_ret, cm_call, cm_before>>
    /\ UNCHANGED cmOthers

CmNext == ApplyCut \/ ApplyBoundaryConditions \/ WriteReturned

(***************************************************************************)
(* state_by_state2state_by_node                                            *)
(*                                                                         *)
(* An array is a record of its shape and its entries.  A 2-dimensional    *)
(* array has rows[i][j]; the state-by-node array has data[idx], idx the    *)
(* tuple of its N + 1 indices.                                             *)
(***************************************************************************)
Abs(x) == IF x < 0 THEN -x ELSE x

\* f[0] + ... + f[k - 1]
RECURSIVE SumFirst(_, _)
SumFirst(f, k) == IF k = 0 THEN 0 ELSE SumFirst(f, k - 1) + f[k - 1]

\* tpm.sum(1): the sum of each row.
RowSums(a) == [i \in 0..(a.shape[1] - 1) |-> SumFirst(a.rows[i], a.shape[2])]

\* x == 1 on an array: True where the entry is exactly 1.0; as a number in
\* np.allclose, True is 1.0 and False is 0.0.
EqualsOne(x) == [k \in DOMAIN x |-> IF x[k] = One THEN One ELSE 0]

\* np.ones(n)
Ones(n) == [k \in 0..(n - 1) |-> One]

\* np.allclose(a, b, atol=atol): |a - b| <= atol + rtol * |b| elementwise,
\* with numpy's default rtol = 1e-05.
AllClose(a, b, atol) ==
    \A k \in DOMAIN a : Abs(a[k] - b[k]) <= atol + (Abs(b[k]) \div 100000)

\* int(math.log(S, 2))
RECURSIVE IntLog2(_)
IntLog2(S) == IF S < 2 THEN 0 ELSE 1 + IntLog2(S \div 2)

\* The validation: the message of the ValueError raised, "" when none is.
ValidationError(a) ==
    IF Len(a.shape) # 2 THEN "State-by-state TPM must be 2-dimensional."
    ELSE IF a.shape[1] # a.shape[2] THEN "State-by-state TPM must be square."
    ELSE IF ~AllClose(EqualsOne(RowSums(a)), Ones(a.shape[2]), PRECISION)
         THEN "Rows of the TPM must sum to 1."
    ELSE ""

\* node_on[n][i] = states[i][n] with states[i] = natural_index2state(i, N)
node_onMutant(n, i, N) == pyphi_index2state(i, N)[n + 1]
node_on(n, i, N) == natural_index2state(i, N)[n + 1]

\* np.sum(on_probabilities[n][i]) with on_probabilities[n] = tpm * node_on[n]
OnProbability(a, n, i, N) ==
    SumFirst([j \in 0..(a.shape[2] - 1) |-> a.rows[i][j] * node_on(n, j, N)],
             a.shape[2])

\* The index tuples of an array of shape [2] * N + [N].
SbnIndices(N) == {st \o <<n>> : st \in [1..N -> {0, 1}], n \in 0..(N - 1)}

\* for i, state in states.items(): sbn_tpm[state] = [... for n in range(N)],
\* for the first k states, starting from np.zeros([2] * N + [N]).
RECURSIVE AssignRows(_, _, _)
AssignRows(a, N, k) ==
    IF k = 0 THEN [idx \in SbnIndices(N) |-> 0]
    ELSE LET before == AssignRows(a, N, k - 1)
             i == k - 1
             state == natural_index2state(i, N)
         IN  [idx \in SbnIndices(N) |->
                 IF SubSeq(idx, 1, N) = state
                 THEN OnProbability(a, idx[N + 1], i, N)
                 ELSE before[idx]]

\* The array returned for a validated argument.
Converted(a) ==
    LET S == a.shape[1]
        N == IntLog2(S)
    IN  [shape |-> [k \in 1..(N + 1) |-> IF k <= N THEN 2 ELSE N],
         data |-> AssignRows(a, N, S)]

\* The arguments: square matrices of S rows whose row i has all its mass on
\* column (a * i + b) % S, but for row p, which has half of its mass there
\* and the rest, short of or over 1.0 by d, on column q; a few matrices that
\* are not square; arrays that are not 2-dimensional.
Defects == {0, 1, -1, PRECISION, PRECISION + 1}

SquareTpm(S, a, b, p, q, d) ==
    [shape |-> <<S, S>>,
     rows |-> [i \in 0..(S - 1) |-> [j \in 0..(S - 1) |->
        LET h == (a * i + b) % S
        IN  IF i # p THEN (IF j = h THEN One ELSE 0)
            ELSE (IF j = h THEN One \div 2 ELSE 0)
                 + (IF j = q THEN One - (One \div 2) - d ELSE 0)]]]

RectangularTpm(r, c) ==
    [shape |-> <<r, c>>,
     rows |-> [i \in 0..(r - 1) |-> [j \in 0..(c - 1) |->
        IF j = i % c THEN One ELSE 0]]]

OtherRankArray(shape) == [shape |-> shape, rows |-> <<>>]

TpmArguments ==
    LET Sizes == 1..(2 ^ MaxTpmNodes)
    IN  {SquareTpm(S, a, b, p, q, d) :
            <<S, a, b, p, q, d>> \in
                {x \in Sizes \X (0..(2 ^ MaxTpmNodes - 1)) \X (0..(2 ^ MaxTpmNodes - 1))
                         \X (0..(2 ^ MaxTpmNodes - 1)) \X (0..(2 ^ MaxTpmNodes - 1))
                         \X Defects :
                    x[2] < x[1] /\ x[3] < x[1] /\ x[4] < x[1] /\ x[5] < x[1]}}
        \cup {RectangularTpm(r, c) : <<r, c>> \in {x \in Sizes \X Sizes : x[1] # x[2]}}
        \cup {OtherRankArray(sh) : sh \in {<<2>>, <<4>>, <<2, 2, 2>>, <<4, 4, 1>>}}

NoArray == [shape |-> <<>>, data |-> <<>>]

TpmIdle ==
    /\ tpm = OtherRankArray(<<>>) /\ sbn_tpm = NoArray
    /\ tpm_error = "" /\ tpm_pc = "idle"

TpmInit ==
    /\ tpm \in TpmArguments
    /\ sbn_tpm = NoArray
    /\ tpm_error = "" /\ tpm_pc = "call"

\* The three checks: raise ValueError, or go on to the conversion.
Validate ==
    /\ tpm_pc = "call"
    /\ tpm_error' = ValidationError(tpm)
    /\ tpm_pc' = IF ValidationError(tpm) = "" THEN "validated" ELSE "raised"
    /\ UNCHANGED <<tpm, sbn_tpm>>
    /\ UNCHANGED tpmOthers

\* The conversion, to return sbn_tpm.
Convert ==
    /\ tpm_pc = "validated"
    /\ sbn_tpm' = Converted(tpm)
    /\ tpm_pc' = "returned"
    /\ UNCHANGED <<tpm, tpm_error>>
    /\ UNCHANGED tpmOthers

TpmNext == Validate \/ Convert

(***************************************************************************)
(* condition_tpm                                                           *)
(*                                                                         *)
(* An index is a list of items: slice(None), np.newaxis or an integer.     *)
(* A list holding a slice or np.newaxis indexes as the tuple of its items. *)
(***************************************************************************)
SliceAll == [kind |-> "slice", value |-> 0]
NewAxis == [kind |-> "newaxis", value |-> 0]
IntItem(v) == [kind |-> "int", value |-> v]

\* The tuples of indices of an array of the given shape.
IndexTuples(shape) ==
    LET Top == IF shape = <<>> THEN 0
               ELSE CHOOSE m \in Range(shape) : \A x \in Range(shape) : x <= m
    IN  {idx \in [1..Len(shape) -> 0..(Top - 1)] :
            \A k \in 1..Len(shape) : idx[k] < shape[k]}

\* The shape of a[items]: an integer takes an axis away, a slice keeps it,
\* np.newaxis inserts an axis of size 1; the axes left over are kept.
RECURSIVE IndexedShape(_, _)
IndexedShape(items, shape) ==
    IF items = <<>> THEN shape
    ELSE LET it == Head(items)
         IN  IF it.kind = "int" THEN IndexedShape(Tail(items), Tail(shape))
             ELSE IF it.kind = "slice"
                  THEN <<Head(shape)>> \o IndexedShape(Tail(items), Tail(shape))
             ELSE <<1>> \o IndexedShape(Tail(items), shape)

\* The position in a of the entry idx of a[items].
RECURSIVE IndexedFrom(_, _)
IndexedFrom(items, idx) ==
    IF items = <<>> THEN idx
    ELSE LET it == Head(items)
         IN  IF it.kind = "int" THEN <<it.value>> \o IndexedFrom(Tail(items), idx)
             ELSE IF it.kind = "slice"
                  THEN <<Head(idx)>> \o IndexedFrom(Tail(items), Tail(idx))
             ELSE IndexedFrom(Tail(items), Tail(idx))

\* a[items]
GetItem(a, items) ==
    LET shape == IndexedShape(items, a.shape)
    IN  [shape |-> shape,
         data |-> [idx \in IndexTuples(shape) |-> a.data[IndexedFrom(items, idx)]]]

\* [state[i], np.newaxis]
FixedIndexMutant(state, i) == <<IntItem(state[i + 1])>>
FixedIndex(state, i) == <<IntItem(state[i + 1]), NewAxis>>

\* for i in fixed_nodes: conditioning_indices[i] = [state[i], np.newaxis],
\* starting from [[slice(None)]] * len(state)
RECURSIVE ConditioningIndices(_, _)
ConditioningIndices(fixed, state) ==
    IF fixed = <<>> THEN [k \in 1..Len(state) |-> <<SliceAll>>]
    ELSE LET i == fixed[Len(fixed)]
         IN  [ConditioningIndices(SubSeq(fixed, 1, Len(fixed) - 1), state)
                 EXCEPT ![i + 1] = FixedIndex(state, i)]

\* list(chain.from_iterable(lists))
RECURSIVE Flatten(_)
Flatten(lists) ==
    IF lists = <<>> THEN <<>> ELSE Head(lists) \o Flatten(Tail(lists))

condition_tpm(a, fixed, state) ==
    GetItem(a, Flatten(ConditioningIndices(fixed, state)))

\* The tuples of distinct nodes of 0..N-1, in any order.
NodeTuples(N) ==
    UNION {{t \in [1..k -> 0..(N - 1)] : \A x, y \in 1..k : x # y => t[x] # t[y]} :
              k \in 0..N}

\* State-by-node TPMs over N nodes: conversions of state-by-state TPMs.
StateByNodeTpms(N) ==
    {Converted(SquareTpm(2 ^ N, 1, b, 0, q, 0)) : b \in 0..1, q \in 0..1}

CondIdle ==
    /\ cond_tpm = NoArray /\ fixed_nodes = <<>> /\ cond_state = <<>>
    /\ conditioned = NoArray /\ cond_pc = "idle"

CondInit ==
    /\ \E N \in 1..MaxCondNodes :
          /\ cond_tpm \in StateByNodeTpms(N)
          /\ fixed_nodes \in NodeTuples(N)
          /\ cond_state \in [1..N -> {0, 1}]
    /\ conditioned = NoArray /\ cond_pc = "call"

ConditionTpm ==
    /\ cond_pc = "call"
    /\ conditioned' = condition_tpm(cond_tpm, fixed_nodes, cond_state)
    /\ cond_pc' = "returned"
    /\ UNCHANGED <<cond_tpm, fixed_nodes, cond_state>>
    /\ UNCHANGED condOthers

CondNext == ConditionTpm

(***************************************************************************)
(* marginalize_out                                                         *)
(*                                                                         *)
(* The entries of the argument are fixed-point numbers; a quotient is kept *)
(* exactly, as a fraction in lowest terms of the same unit.                *)
(***************************************************************************)
RECURSIVE GCD(_, _)
GCD(x, y) == IF y = 0 THEN x ELSE GCD(y, x % y)

\* x / n for an integer n > 0.
Quotient(x, n) ==
    LET g == GCD(Abs(x), n) IN [num |-> x \div g, den |-> n \div g]

\* p + q and p <= q for fractions.
PlusFraction(p, q) == Quotient(p.num * q.den + q.num * p.den, p.den * q.den)
LessEqFraction(p, q) == p.num * q.den <= q.num * p.den

\* The sum of f[j] over the indices j of J.
RECURSIVE SumOver(_, _)
SumOver(f, J) ==
    IF J = {} THEN 0
    ELSE LET j == CHOOSE x \in J : TRUE IN f[j] + SumOver(f, J \ {j})

\* tpm.sum(axis, keepdims=True)
SumKeepDims(a, axis) ==
    LET shape == [a.shape EXCEPT ![axis + 1] = 1]
        L == a.shape[axis + 1]
    IN  [shape |-> shape,
         data |-> [idx \in IndexTuples(shape) |->
            SumFirst([v \in 0..(L - 1) |-> a.data[[idx EXCEPT ![axis + 1] = v]]], L)]]

\* tpm.shape[node.index]
AxisLengthMutant(a, axis) == a.shape[1]
AxisLength(a, axis) == a.shape[axis + 1]

\* tpm.sum(node.index, keepdims=True) / tpm.shape[node.index]
marginalize_out(index, a) ==
    LET s == SumKeepDims(a, index)
    IN  [shape |-> s.shape,
         data |-> [idx \in DOMAIN s.data |-> Quotient(s.data[idx], AxisLength(a, index))]]

\* The arguments of k axes, each of size 2 or (an axis already marginalized
\* out or conditioned) 1.
MargValues == {0, One \div 2, One}
MargArrays(k) ==
    UNION {{[shape |-> sh, data |-> d] : d \in [IndexTuples(sh) -> MargValues]} :
              sh \in [1..k -> {1, 2}]}

MargIdle ==
    /\ marg_tpm = NoArray /\ node_index = 0
    /\ marginalized = NoArray /\ marg_pc = "idle"

MargInit ==
    /\ \E k \in 1..MaxMargAxes : marg_tpm \in MargArrays(k)
    /\ node_index \in 0..(Len(marg_tpm.shape) - 1)
    /\ marginalized = NoArray /\ marg_pc = "call"

MarginalizeOut ==
    /\ marg_pc = "call"
    /\ marginalized' = marginalize_out(node_index, marg_tpm)
    /\ marg_pc' = "returned"
    /\ UNCHANGED <<marg_tpm, node_index>>
    /\ UNCHANGED margOthers

MargNext == MarginalizeOut

(***************************************************************************)
(* uniform_distribution and max_entropy_distribution                       *)
(*                                                                         *)
(* The entries are exact fractions of 1.                                   *)
(***************************************************************************)
\* The position of the entry idx in the row-major (C order) flattening of an
\* array of the given shape.
RECURSIVE RavelIndex(_, _)
RavelIndex(idx, shape) ==
    IF idx = <<>> THEN 0
    ELSE LET k == Len(idx)
         IN  RavelIndex(SubSeq(idx, 1, k - 1), SubSeq(shape, 1, k - 1)) * shape[k] + idx[k]

\* flat.reshape(shape)
Reshape(flat, shape) ==
    [shape |-> shape,
     data |-> [idx \in IndexTuples(shape) |-> flat[RavelIndex(idx, shape)]]]

\* a.size
RECURSIVE Size(_)
Size(shape) == IF shape = <<>> THEN 1 ELSE Head(shape) * Size(Tail(shape))

\* number_of_states = 2 ** number_of_nodes
NumberOfStates(n) == 2 ^ n

\* (np.ones(number_of_states) / number_of_states).reshape([2] * number_of_nodes)
uniform_distribution(n) ==
    LET number_of_states == NumberOfStates(n)
    IN  Reshape([k \in 0..(number_of_states - 1) |-> Quotient(1, number_of_states)],
                [k \in 1..n |-> 2])

\* [2 if index in node_indices else 1 for index in range(number_of_nodes)]
MaxEntropyShapeMutant(indices, n) == [k \in 1..n |-> 2]
MaxEntropyShape(indices, n) == [k \in 1..n |-> IF (k - 1) \in indices THEN 2 ELSE 1]

\* distribution = np.ones(shape); distribution / distribution.size
max_entropy_distribution(indices, n) ==
    LET shape == MaxEntropyShape(indices, n)
    IN  [shape |-> shape,
         data |-> [idx \in IndexTuples(shape) |-> Quotient(1, Size(shape))]]

DistIdle ==
    /\ dist_n = 0 /\ node_indices = {}
    /\ uniform = NoArray /\ max_entropy = NoArray /\ dist_called = {}

DistInit ==
    /\ dist_n \in 0..MaxDistNodes
    /\ node_indices \in SUBSET (0..(dist_n - 1))
    /\ uniform = NoArray /\ max_entropy = NoArray /\ dist_called = {}

UniformDistribution ==
    /\ "uniform" \notin dist_called
    /\ uniform' = uniform_distribution(dist_n)
    /\ dist_called' = dist_called \cup {"uniform"}
    /\ UNCHANGED <<dist_n, node_indices, max_entropy>>
    /\ UNCHANGED distOthers

MaxEntropyDistribution ==
    /\ "max_entropy" \notin dist_called
    /\ max_entropy' = max_entropy_distribution(node_indices, dist_n)
    /\ dist_called' = dist_called \cup {"max_entropy"}
    /\ UNCHANGED <<dist_n, node_indices, uniform>>
    /\ UNCHANGED distOthers

DistNext == UniformDistribution \/ MaxEntropyDistribution

(***************************************************************************)
(* _hamming_matrix                                                         *)
(***************************************************************************)
\* bin(state)[2:]: the binary digits, highest first, "0" for 0.
RECURSIVE BinDigits(_)
BinDigits(state) ==
    IF state < 2 THEN <<state>> ELSE BinDigits(state \div 2) \o <<state % 2>>

\* s.zfill(N): zeros in front up to the length N.
ZFill(s, N) ==
    IF Len(s) >= N THEN s ELSE [k \in 1..(N - Len(s)) |-> 0] \o s

\* The 'hamming' metric of cdist: the proportion of the components in which
\* u and v differ.
Hamming(u, v) ==
    Quotient(Cardinality({k \in 1..Len(u) : u[k] # v[k]}), Len(u))

\* q * N
TimesMutant(q, N) == q
Times(q, N) == Quotient(q.num * N, q.den)

\* cdist(XA, XB, 'hamming') * N
ScaledDistances(XA, XB, N) ==
    [i \in 0..(Len(XA) - 1) |-> [j \in 0..(Len(XB) - 1) |->
        Times(Hamming(XA[i + 1], XB[j + 1]), N)]]

\* list(bin(state)[2:].zfill(N)) for state in range(2 ** N)
PossibleStates(N) == [s \in 1..(2 ^ N) |-> ZFill(BinDigits(s - 1), N)]

\* _hamming_matrix(N), undecorated
HammingMatrix(N) == ScaledDistances(PossibleStates(N), PossibleStates(N), N)

HamIdle ==
    /\ ham_N = 0 /\ possible_states = <<>>
    /\ hamming_matrix = <<>> /\ ham_pc = "idle"

HamInit ==
    /\ ham_N \in 0..MaxHamNodes
    /\ possible_states = <<>>
    /\ hamming_matrix = <<>> /\ ham_pc = "states"

\* One round of the list comprehension: the row of the next state.
HamAppendState ==
    /\ ham_pc = "states"
    /\ Len(possible_states) < 2 ^ ham_N
    /\ possible_states' =
          Append(possible_states, ZFill(BinDigits(Len(possible_states)), ham_N))
    /\ UNCHANGED <<ham_N, hamming_matrix, ham_pc>>
    /\ UNCHANGED hamOthers

\* return cdist(possible_states, possible_states, 'hamming') * N
HamReturn ==
    /\ ham_pc = "states"
    /\ Len(possible_states) = 2 ^ ham_N
    /\ hamming_matrix' = ScaledDistances(possible_states, possible_states, ham_N)
    /\ ham_pc' = "returned"
    /\ UNCHANGED <<ham_N, possible_states>>
    /\ UNCHANGED hamOthers

HamNext == HamAppendState \/ HamReturn

(***************************************************************************)
(* hamming_emd                                                             *)
(*                                                                         *)
(* A repertoire's entries are whole numbers of units of 1 / EmdMass, so    *)
(* that the entries of a repertoire add up to EmdMass units.  emd is the   *)
(* function of the pyemd library: the least cost of moving the mass of the *)
(* first histogram onto the second, the cost of moving a mass m from bin i *)
(* to bin j being m * distance_matrix[i][j].                               *)
(***************************************************************************)
\* a.squeeze(): the axes of size 1 removed.
SqueezedShape(shape) == SelectSeq(shape, LAMBDA x : x # 1)

\* The position in the array of the given shape of the entry idx of the
\* squeezed array.
RECURSIVE Unsqueezed(_, _)
Unsqueezed(idx, shape) ==
    IF shape = <<>> THEN <<>>
    ELSE IF Head(shape) = 1 THEN <<0>> \o Unsqueezed(idx, Tail(shape))
    ELSE <<Head(idx)>> \o Unsqueezed(Tail(idx), Tail(shape))

Squeeze(a) ==
    LET shape == SqueezedShape(a.shape)
    IN  [shape |-> shape,
         data |-> [idx \in IndexTuples(shape) |-> a.data[Unsqueezed(idx, a.shape)]]]

\* a.ravel(): the entries in row-major order.
Ravel(a) ==
    [k \in 0..(Size(a.shape) - 1) |->
        a.data[CHOOSE idx \in IndexTuples(a.shape) : RavelIndex(idx, a.shape) = k]]

\* The least cost of moving the units of P onto Q (of equal mass): the first
\* unit left goes to some bin of Q with room, the rest at least cost.
RECURSIVE MinCostMutant(_, _, _)
MinCostMutant(P, Q, D) ==
    IF \A x \in DOMAIN P : P[x] = 0 THEN [num |-> 0, den |-> 1]
    ELSE LET i == CHOOSE x \in DOMAIN P :
                      P[x] > 0 /\ \A y \in DOMAIN P : P[y] > 0 => x <= y
             costs == {PlusFraction(D[i][j],
                           MinCostMutant([P EXCEPT ![i] = @ - 1],
                                         [Q EXCEPT ![j] = @ - 1], D)) :
                          j \in {y \in DOMAIN Q : Q[y] > 0}}
         IN  CHOOSE c \in costs : \A x \in costs : LessEqFraction(x, c)

RECURSIVE MinCost(_, _, _)
MinCost(P, Q, D) ==
    IF \A x \in DOMAIN P : P[x] = 0 THEN [num |-> 0, den |-> 1]
    ELSE LET i == CHOOSE x \in DOMAIN P :
                      P[x] > 0 /\ \A y \in DOMAIN P : P[y] > 0 => x <= y
             costs == {PlusFraction(D[i][j],
                           MinCost([P EXCEPT ![i] = @ - 1],
                                   [Q EXCEPT ![j] = @ - 1], D)) :
                          j \in {y \in DOMAIN Q : Q[y] > 0}}
         IN  CHOOSE c \in costs : \A x \in costs : LessEqFraction(c, x)

\* emd(first_histogram, second_histogram, distance_matrix), in units of 1
emd(first_histogram, second_histogram, distance_matrix) ==
    LET c == MinCost(first_histogram, second_histogram, distance_matrix)
    IN  Quotient(c.num, c.den * EmdMass)

\* _hamming_matrix(d1.ndim)
DistanceMatrixMutant(d1) ==
    LET D == HammingMatrix(Len(d1.shape))
    IN  [i \in DOMAIN D |-> [j \in DOMAIN D[i] |->
            IF i <= j THEN D[i][j] ELSE [num |-> 0, den |-> 1]]]
DistanceMatrix(d1) == HammingMatrix(Len(d1.shape))

\* d1, d2 = d1.squeeze(), d2.squeeze()
\* return emd(d1.ravel(), d2.ravel(), _hamming_matrix(d1.ndim))
hamming_emd(d1, d2) ==
    LET s1 == Squeeze(d1)
        s2 == Squeeze(d2)
    IN  emd(Ravel(s1), Ravel(s2), DistanceMatrix(s1))

\* The ways of spreading m units of mass over n states.
RECURSIVE Spreads(_, _)
Spreads(n, m) ==
    IF n = 0 THEN (IF m = 0 THEN {<<>>} ELSE {})
    ELSE UNION {{<<x>> \o rest : rest \in Spreads(n - 1, m - x)} : x \in 0..m}

\* The repertoires: arrays of up to MaxEmdAxes axes of size 1 or 2 with
\* entries >= 0 that add up to 1.
Repertoires ==
    UNION {UNION {{Reshape([p \in 0..(Size(sh) - 1) |-> flat[p + 1]], sh) :
                      flat \in Spreads(Size(sh), EmdMass)} :
                  sh \in [1..k -> {1, 2}]} : k \in 0..MaxEmdAxes}

NoDistance == [num |-> 0, den |-> 0]

EmdIdle ==
    /\ emd_d1 = NoArray /\ emd_d2 = NoArray
    /\ emd_12 = NoDistance /\ emd_21 = NoDistance /\ emd_called = {}

\* The two repertoires have the same flattened length.
EmdInit ==
    /\ emd_d1 \in Repertoires
    /\ emd_d2 \in {d \in Repertoires : Size(d.shape) = Size(emd_d1.shape)}
    /\ emd_12 = NoDistance /\ emd_21 = NoDistance /\ emd_called = {}

\* hamming_emd(d1, d2)
HammingEmd ==
    /\ "d1, d2" \notin emd_called
    /\ emd_12' = hamming_emd(emd_d1, emd_d2)
    /\ emd_called' = emd_called \cup {"d1, d2"}
    /\ UNCHANGED <<emd_d1, emd_d2, emd_21>>
    /\ UNCHANGED emdOthers

\* hamming_emd(d2, d1)
HammingEmdReversed ==
    /\ "d2, d1" \notin emd_called
    /\ emd_21' = hamming_emd(emd_d2, emd_d1)
    /\ emd_called' = emd_called \cup {"d2, d1"}
    /\ UNCHANGED <<emd_d1, emd_d2, emd_12>>
    /\ UNCHANGED emdOthers

EmdNext == HammingEmd \/ HammingEmdReversed

(***************************************************************************)
(* np_hash                                                                 *)
(*                                                                         *)
(* An array object is its dtype, its shape, the order of its memory (C:    *)
(* last index fastest, F: first index fastest) and the bytes of its        *)
(* memory.  sha1 is taken to be free of collisions: a digest stands for    *)
(* the byte sequence it was computed from.                                 *)
(***************************************************************************)
DTypes == {"int16", "int64"}
ItemSize(dtype) == IF dtype = "int16" THEN 2 ELSE 8

\* The n low bytes of v >= 0, lowest first.
RECURSIVE LittleEndian(_, _)
LittleEndian(v, n) ==
    IF n = 0 THEN <<>> ELSE <<v % 256>> \o LittleEndian(v \div 256, n - 1)

\* The bytes of one element.
ItemBytes(dtype, v) == LittleEndian(v, ItemSize(dtype))

\* The position in memory, counted in elements, of the element idx.
Position(idx, shape, order) ==
    IF order = "C" THEN RavelIndex(idx, shape)
    ELSE RavelIndex(Reverse(idx), Reverse(shape))

\* The array object with the given elements laid out in the given order.
ArrayObject(dtype, order, a) ==
    [dtype |-> dtype, shape |-> a.shape, order |-> order,
     buffer |-> Flatten([p \in 1..Size(a.shape) |->
        ItemBytes(dtype, a.data[CHOOSE idx \in IndexTuples(a.shape) :
                                   Position(idx, a.shape, order) = p - 1])])]

\* The bytes of the element idx of an array object.
ItemAt(a, idx) ==
    LET p == Position(idx, a.shape, a.order)
    IN  SubSeq(a.buffer, p * ItemSize(a.dtype) + 1, (p + 1) * ItemSize(a.dtype))

\* np.ascontiguousarray(a): the same elements in C order.
ascontiguousarrayMutant(a) == a
ascontiguousarray(a) ==
    [a EXCEPT !.order = "C",
              !.buffer = Flatten([p \in 1..Size(a.shape) |->
                  ItemAt(a, CHOOSE idx \in IndexTuples(a.shape) :
                                RavelIndex(idx, a.shape) = p - 1)])]

\* hashlib.sha1(buffer): the digest of the bytes.
sha1(bytes) == [sha1 |-> bytes]

\* None, in the form of an array object, and the builtin hash(x).
None == [dtype |-> "NoneType", shape |-> <<>>, order |-> "", buffer |-> <<>>]
hash(x) == [hash |-> x]

\* if a is None: return hash(None)
\* int(hashlib.sha1(np.ascontiguousarray(a).view(a.dtype)).hexdigest(), 16)
np_hashMutant(a) ==
    IF a = None THEN hash(None)
    ELSE sha1(<<a.shape>> \o ascontiguousarray(a).buffer)
np_hash(a) ==
    IF a = None THEN hash(None) ELSE sha1(ascontiguousarray(a).buffer)

\* The shapes of at most two axes and at most MaxHashSize elements.
HashShapes ==
    {sh \in UNION {[1..k -> 1..MaxHashSize] : k \in 1..2} : Size(sh) <= MaxHashSize}
HashValues == {1, 256}

NoObject == [dtype |-> "", shape |-> <<>>, order |-> "", buffer |-> <<>>]
NoHash == [sha1 |-> <<>>]

HashIdle ==
    /\ hash_a = NoObject /\ hash_b = NoObject
    /\ hash_of_a = NoHash /\ hash_of_b = NoHash /\ hash_again = NoHash
    /\ hash_of_none = NoHash /\ hash_called = {}

\* Two arrays of one dtype that hold the same elements in the same row-major
\* sequence, each in a shape and a memory order of its own.
HashInit ==
    /\ \E dtype \in DTypes : \E sa, sb \in HashShapes : \E oa, ob \in {"C", "F"} :
       \E data \in [IndexTuples(sa) -> HashValues] :
          LET a == [shape |-> sa, data |-> data]
          IN  /\ Size(sb) = Size(sa)
              /\ hash_a = ArrayObject(dtype, oa, a)
              /\ hash_b = ArrayObject(dtype, ob, Reshape(Ravel(a), sb))
    /\ hash_of_a = NoHash /\ hash_of_b = NoHash /\ hash_again = NoHash
    /\ hash_of_none = NoHash /\ hash_called = {}

NpHashA ==
    /\ "a" \notin hash_called
    /\ hash_of_a' = np_hash(hash_a)
    /\ hash_called' = hash_called \cup {"a"}
    /\ UNCHANGED <<hash_a, hash_b, hash_of_b, hash_again, hash_of_none>>
    /\ UNCHANGED hashOthers

NpHashB ==
    /\ "b" \notin hash_called
    /\ hash_of_b' = np_hash(hash_b)
    /\ hash_called' = hash_called \cup {"b"}
    /\ UNCHANGED <<hash_a, hash_b, hash_of_a, hash_again, hash_of_none>>
    /\ UNCHANGED hashOthers

\* A second call with the array a.
NpHashAgain ==
    /\ "a" \in hash_called /\ "again" \notin hash_called
    /\ hash_again' = np_hash(hash_a)
    /\ hash_called' = hash_called \cup {"again"}
    /\ UNCHANGED <<hash_a, hash_b, hash_of_a, hash_of_b, hash_of_none>>
    /\ UNCHANGED hashOthers

\* np_hash(None)
NpHashNone ==
    /\ "None" \notin hash_called
    /\ hash_of_none' = np_hash(None)
    /\ hash_called' = hash_called \cup {"None"}
    /\ UNCHANGED <<hash_a, hash_b, hash_of_a, hash_of_b, hash_again>>
    /\ UNCHANGED hashOthers

HashNext == NpHashA \/ NpHashB \/ NpHashAgain \/ NpHashNone

(***************************************************************************)
(* The memoized functions: @lru_cache on bipartition_indices and           *)
(* _hamming_matrix                                                         *)
(*                                                                         *)
(* Each decorated function has a store of (key, value) entries, kept from  *)
(* the least to the most recently used.  A call that finds its key returns *)
(* the stored value; a call that does not runs the function and stores the *)
(* result.  How many entries fit depends on the memory in use, which the   *)
(* program does not control: an insertion may evict any number of entries, *)
(* least recently used first.                                              *)
(***************************************************************************)
\* part[bit] after the inner loop of bipartition_indices for the mask i.
PartOf(i, N, bit) == SelectSeq([n \in 1..N |-> n - 1], LAMBDA n : Bit(i, n) = bit)

\* bipartition_indices(N), undecorated
bipartition_indices(N) ==
    IF N <= 0 THEN <<>>
    ELSE [m \in 1..NumMasks(N) |-> Entry(<<PartOf(m - 1, N, 0), PartOf(m - 1, N, 1)>>)]

CachedFunctions == {"bipartition_indices", "_hamming_matrix"}

\* The function underneath the decorator.
Undecorated(f, N) ==
    IF f = "bipartition_indices" THEN bipartition_indices(N) ELSE HammingMatrix(N)

\* The key of a call: the content of its positional arguments.
MakeKeyMutant(N) == 0
MakeKey(N) == N

\* The positions of the entries of a store with the given key.
Hits(store, key) == {k \in 1..Len(store) : store[k].key = key}

\* The store with its entry k moved to the most recently used end.
Touched(store, k) ==
    SubSeq(store, 1, k - 1) \o SubSeq(store, k + 1, Len(store)) \o <<store[k]>>

\* The store without its k least recently used entries.
Evicted(store, k) == SubSeq(store, k + 1, Len(store))

NoCachedCall == [f |-> "", N |-> 0, hit |-> FALSE]

CacheIdle ==
    /\ cache = [f \in CachedFunctions |-> <<>>]
    /\ cached_call = NoCachedCall /\ cached_return = <<>>

CacheInit ==
    /\ cache = [f \in CachedFunctions |-> <<>>]
    /\ cached_call = NoCachedCall /\ cached_return = <<>>

\* A call whose key is in the store (warm cache).
CachedCallHit ==
    /\ \E f \in CachedFunctions : \E N \in 0..MaxCacheArg :
       \E k \in Hits(cache[f], MakeKey(N)) :
          /\ cached_return' = cache[f][k].value
          /\ cache' = [cache EXCEPT ![f] = Touched(@, k)]
          /\ cached_call' = [f |-> f, N |-> N, hit |-> TRUE]
    /\ UNCHANGED cacheOthers

\* A call whose key is not in the store (cold cache, or evicted since).
CachedCallMiss ==
    /\ \E f \in CachedFunctions : \E N \in 0..MaxCacheArg :
          /\ Hits(cache[f], MakeKey(N)) = {}
          /\ LET value == Undecorated(f, N)
                 store == Append(cache[f], [key |-> MakeKey(N), value |-> value])
             IN  /\ cached_return' = value
                 /\ \E k \in 0..Len(store) :
                        cache' = [cache EXCEPT ![f] = Evicted(store, k)]
          /\ cached_call' = [f |-> f, N |-> N, hit |-> FALSE]
    /\ UNCHANGED cacheOthers

CacheNext == CachedCallHit \/ CachedCallMiss

(***************************************************************************)
(* jsonify: loads / load with PyPhiJSONDecoder                             *)
(*                                                                         *)
(* A JSON value and what it is decoded to are nodes of one form: kind is   *)
(* "atom", "list", "dict", "tuple" or "object" (a model object); a dict    *)
(* has its keys, under "__class__" and "__version__" the strings class and *)
(* version, and under "value" its one item; an object has its class, the   *)
(* way it was made (via) and as its item the dict it was made from.        *)
(***************************************************************************)
CLASS_KEY == "__class__"
VERSION_KEY == "__version__"

Node(kind, keys, class, version, via, items) ==
    [kind |-> kind, keys |-> keys, class |-> class, version |-> version,
     via |-> via, items |-> items]
Atom == Node("atom", {}, "", "", "", <<>>)
JsonList(items) == Node("list", {}, "", "", "", items)
JsonDict(v) == Node("dict", {"value"}, "", "", "", <<v>>)
ClassDict(class, version, v) ==
    Node("dict", {CLASS_KEY, VERSION_KEY, "value"}, class, version, "", <<v>>)
TupleOf(items) == Node("tuple", {}, "", "", "", items)
ModelObject(class, via, arg) == Node("object", {}, class, "", via, <<arg>>)

\* pyphi.__version__ and the version of another release.
CurrentVersion == "1.0.0"
Versions == {CurrentVersion, "0.9.0"}

\* The names in _loadable_models() (one of them stands for all) and a name
\* that is not among them.
LoadableModels == {"Network"}
ClassNames == LoadableModels \cup {"Foo"}

\* The JSON values of nesting depth up to d.
RECURSIVE JsonValues(_)
JsonValues(d) ==
    IF d = 0 THEN {Atom}
    ELSE LET S == JsonValues(d - 1)
         IN  S \cup {JsonList(<<x>>) : x \in S}
               \cup {JsonList(<<x, y>>) : x \in S, y \in S}
               \cup {JsonDict(x) : x \in S}
               \cup {ClassDict(c, v, x) : c \in ClassNames, v \in Versions, x \in S}

\* What a step of decoding gives: the exception raised ("" for none), the
\* value, and the model objects constructed so far, each with the dict it
\* was constructed from.
Returned(value, constructed) ==
    [error |-> "", value |-> value, constructed |-> constructed]
Raised(error, constructed) ==
    [error |-> error, value |-> Atom, constructed |-> constructed]

\* del obj[CLASS_KEY], obj[VERSION_KEY]
DelMetadata(obj) ==
    [obj EXCEPT !.keys = @ \ {CLASS_KEY, VERSION_KEY}, !.class = "", !.version = ""]

\* The tail of _load_object for a dict with CLASS_KEY whose values are
\* loaded: the class is looked up, then the version is checked, then the
\* object is made with from_json where the class has it, else with cls(**obj).
LoadClassDict(obj, constructed, from_json) ==
    IF obj.class \notin LoadableModels THEN Raised("KeyError", constructed)
    ELSE IF obj.version # CurrentVersion THEN Raised("JSONVersionError", constructed)
    ELSE LET made == ModelObject(obj.class,
                         IF obj.class \in from_json THEN "from_json" ELSE "constructor",
                         DelMetadata(obj))
         IN  Returned(made, Append(constructed, [dict |-> obj, object |-> made]))

\* PyPhiJSONDecoder._load_object(obj), and its use on the items of a dict or
\* a list one after the other.
RECURSIVE LoadObject(_, _, _)
RECURSIVE LoadItems(_, _, _)
LoadItems(items, constructed, from_json) ==
    IF items = <<>> THEN Returned(<<>>, constructed)
    ELSE LET first == LoadObject(Head(items), constructed, from_json)
         IN  IF first.error # "" THEN first
             ELSE LET rest == LoadItems(Tail(items), first.constructed, from_json)
                  IN  IF rest.error # "" THEN rest
                      ELSE Returned(<<first.value>> \o rest.value, rest.constructed)

LoadObject(obj, constructed, from_json) ==
    IF obj.kind = "dict"
    THEN LET values == LoadItems(obj.items, constructed, from_json)
         IN  IF values.error # "" THEN values
             ELSE LET loaded == [obj EXCEPT !.items = values.value]
                  IN  IF CLASS_KEY \in loaded.keys
                      THEN LoadClassDict(loaded, values.constructed, from_json)
                      ELSE Returned(loaded, values.constructed)
    ELSE IF obj.kind = "list"
    THEN LET values == LoadItems(obj.items, constructed, from_json)
         IN  IF values.error # "" THEN values
             ELSE Returned(TupleOf(values.value), values.constructed)
    ELSE Returned(obj, constructed)

\* json.loads(string, cls=PyPhiJSONDecoder): the parser decodes the values
\* in the order of the text and hands every dict, once its values are
\* decoded, to the object_hook _load_object.
RECURSIVE Decode(_, _, _)
RECURSIVE DecodeItems(_, _, _)
DecodeItems(items, constructed, from_json) ==
    IF items = <<>> THEN Returned(<<>>, constructed)
    ELSE LET first == Decode(Head(items), constructed, from_json)
         IN  IF first.error # "" THEN first
             ELSE LET rest == DecodeItems(Tail(items), first.constructed, from_json)
                  IN  IF rest.error # "" THEN rest
                      ELSE Returned(<<first.value>> \o rest.value, rest.constructed)

Decode(doc, constructed, from_json) ==
    IF doc.kind = "atom" THEN Returned(doc, constructed)
    ELSE LET values == DecodeItems(doc.items, constructed, from_json)
         IN  IF values.error # "" THEN values
             ELSE IF doc.kind = "list"
                  THEN Returned(JsonList(values.value), values.constructed)
                  ELSE LoadObject([doc EXCEPT !.items = values.value],
                                  values.constructed, from_json)

loads(string, from_json) == Decode(string, <<>>, from_json)

NoResult == Raised("", <<>>)

JsonIdle ==
    /\ json_string = Atom /\ has_from_json = {}
    /\ json_result = NoResult /\ json_pc = "idle"

\* The stream to load, and the loadable classes that have a from_json
\* method.
JsonInit ==
    /\ json_string \in JsonValues(MaxJsonDepth)
    /\ has_from_json \in SUBSET LoadableModels
    /\ json_result = NoResult /\ json_pc = "call"

Loads ==
    /\ json_pc = "call"
    /\ json_result' = loads(json_string, has_from_json)
    /\ json_pc' = "done"
    /\ UNCHANGED <<json_string, has_from_json>>
    /\ UNCHANGED jsonOthers

JsonNext == Loads

(***************************************************************************)
(* Properties of bipartition_indices                                       *)
(***************************************************************************)
\* The positions k of 0..N-1 whose bit in the mask m has the value b.
PositionsWithBit(m, N, b) == {k \in 0..(N - 1) : (m \div (2 ^ k)) % 2 = b}

\* C1: for N >= 1 bipartition_indices(N) has exactly 2^(N-1) entries, and the
\* entry for mask m (m = 0 .. 2^(N-1)-1) is (group1, group0): the ascending
\* tuple of the positions whose bit of m is set, then the ascending tuple of
\* the others; bipartition_indices(3) is the list of the docstring.
C1_CanonicalOrder ==
    (bi_pc = "done" /\ bi_N >= 1) =>
        /\ Len(result) = 2 ^ (bi_N - 1)
        /\ \A m \in 0..(2 ^ (bi_N - 1) - 1) :
              result[m + 1] = << Ascending(PositionsWithBit(m, bi_N, 1)),
                                 Ascending(PositionsWithBit(m, bi_N, 0)) >>
        /\ bi_N = 3 =>
              result = << << <<>>, <<0, 1, 2>> >>, << <<0>>, <<1, 2>> >>,
                          << <<1>>, <<0, 2>> >>, << <<0, 1>>, <<2>> >> >>

C1_Witness ==
    /\ bi_pc = "done" /\ bi_N = 4 /\ Len(result) = 8
    /\ result[6] = << <<0, 2>>, <<1, 3>> >>

\* C2: for N >= 1 the entries are exactly the unordered bipartitions of
\* 0..N-1, each once: every entry is a pair of disjoint duplicate-free tuples
\* covering 0..N-1, every split {A, rest} is some entry, no entry is repeated
\* and no entry is the reflection of an entry.
C2_UnorderedBipartitions ==
    (bi_pc = "done" /\ bi_N >= 1) =>
        LET U == 0..(bi_N - 1)
            E == 1..Len(result)
        IN  /\ \A e \in E :
                  /\ Range(result[e][1]) \cap Range(result[e][2]) = {}
                  /\ Range(result[e][1]) \cup Range(result[e][2]) = U
                  /\ Len(result[e][1]) + Len(result[e][2]) = bi_N
            /\ \A A \in SUBSET U :
                  \E e \in E : {Range(result[e][1]), Range(result[e][2])} = {A, U \ A}
            /\ \A e, f \in E : e # f => result[e] # result[f]
            /\ \A e, f \in E : result[f] # <<result[e][2], result[e][1]>>

C2_Witness ==
    /\ bi_pc = "done" /\ bi_N = 3
    /\ \E e \in 1..Len(result) : result[e] = << <<0, 1>>, <<2>> >>
    /\ \A e \in 1..Len(result) : result[e] # << <<2>>, <<0, 1>> >>

(***************************************************************************)
(* Properties of the index conventions                                     *)
(***************************************************************************)
\* The sum of s[k] * 2^k over the nodes k (s[k] is s[k + 1] here).
RECURSIVE WeightedSum(_)
WeightedSum(s) ==
    IF s = <<>> THEN 0
    ELSE WeightedSum(SubSeq(s, 1, Len(s) - 1)) + s[Len(s)] * 2 ^ (Len(s) - 1)

\* C3: natural_index2state(i, n) is the reverse of pyphi_index2state(i, n),
\* and both have length n.
C3_HoliIsReverseOfLoli ==
    ({"loli", "holi"} \subseteq ix_called) =>
        /\ Len(loli) = number_of_nodes
        /\ Len(holi) = number_of_nodes
        /\ \A k \in 1..number_of_nodes : holi[k] = loli[number_of_nodes + 1 - k]

C3_Witness ==
    /\ {"loli", "holi"} \subseteq ix_called
    /\ number_of_nodes = 3 /\ ix_i = 3
    /\ loli = <<1, 1, 0>> /\ holi = <<0, 1, 1>>

\* C4: pyphi_index2state(., n) is a bijection from 0..2^n-1 onto the binary
\* tuples of length n: element k is bit k of i, the index is the sum of
\* state[k] * 2^k, no other index gives the same tuple and every binary tuple
\* is the image of an index.
C4_LoliBijection ==
    ("loli" \in ix_called) =>
        LET n == number_of_nodes
            Indices == 0..(2 ^ n - 1)
        IN  /\ loli \in [1..n -> {0, 1}]
            /\ \A k \in 0..(n - 1) : loli[k + 1] = (ix_i \div (2 ^ k)) % 2
            /\ WeightedSum(loli) = ix_i
            /\ \A j \in Indices : j # ix_i => pyphi_index2state(j, n) # loli
            /\ \A t \in [1..n -> {0, 1}] :
                  \E j \in Indices : pyphi_index2state(j, n) = t

C4_Witness ==
    /\ "loli" \in ix_called
    /\ number_of_nodes = 3 /\ ix_i = 6 /\ loli = <<0, 1, 1>>

(***************************************************************************)
(* Properties of the connectivity-matrix operations                        *)
(***************************************************************************)
\* C5: for a cut with disjoint severed and intact sets, the matrix apply_cut
\* returns is 0 at every (i, j) with i severed and j intact and equals the
\* argument everywhere else; get_outputs_from_cm of a severed node then holds
\* no intact node and get_inputs_from_cm of an intact node no severed node.
C5_CutZeroesSeveredToIntact ==
    ( /\ cm_pc = "returned" /\ cm_call.op = "apply_cut" /\ ~cm_call.cut.none
      /\ cm_call.cut.severed \cap cm_call.cut.intact = {} ) =>
        LET severed == cm_call.cut.severed
            intact  == cm_call.cut.intact
            cm      == heap[cm_ret]
        IN  /\ DOMAIN cm = DOMAIN cm_before
            /\ \A i, j \in DOMAIN cm_before :
                  cm[i][j] = IF i \in severed /\ j \in intact THEN 0
                             ELSE cm_before[i][j]
            /\ \A i \in severed : Range(get_outputs_from_cm(i, cm)) \cap intact = {}
            /\ \A j \in intact : Range(get_inputs_from_cm(j, cm)) \cap severed = {}

C5_Witness ==
    /\ cm_pc = "returned" /\ cm_call.op = "apply_cut" /\ ~cm_call.cut.none
    /\ cm_call.cut.severed = {0} /\ cm_call.cut.intact = {1}
    /\ \A i, j \in DOMAIN cm_before : cm_before[i][j] = 1
    /\ heap[cm_ret][0][1] = 0 /\ heap[cm_ret][1][0] = 1
    /\ get_outputs_from_cm(0, heap[cm_ret]) = <<0>>

\* C6: when apply_cut or apply_boundary_conditions_to_cm returns, the matrix
\* that was passed to it has the entries it had before the call.
C6_ArgumentNotWritten ==
    (cm_pc = "returned") => heap[1] = cm_before

C6_Witness ==
    /\ cm_pc = "returned" /\ cm_ret = 2
    /\ heap[1] = cm_before /\ heap[2] # heap[1]

\* C7: the matrix returned by apply_cut and apply_boundary_conditions_to_cm
\* is a copy distinct from the argument, for every argument (cut = None and
\* an empty external index set included): a later in-place write to it
\* leaves the argument's entries as they were.
C7_ReturnsDistinctCopy ==
    (cm_pc = "written") => (cm_ret # 1 /\ heap[1] = cm_before)

\* C20: in the matrix apply_boundary_conditions_to_cm returns, every entry
\* (i, j) with i or j among the external indices is 0 and every other entry
\* is the argument's; applying it again with the same indices to the matrix
\* returned gives that matrix again.
C20_BoundaryConditions ==
    (cm_pc = "returned" /\ cm_call.op = "apply_boundary_conditions_to_cm") =>
        LET ext == cm_call.external_indices
            cm == heap[cm_ret]
            again == apply_boundary_conditions_to_cm(ext, cm_ret, heap)
        IN  /\ DOMAIN cm = DOMAIN cm_before
            /\ \A i, j \in DOMAIN cm :
                  cm[i][j] = IF i \in ext \/ j \in ext THEN 0 ELSE cm_before[i][j]
            /\ again.heap[again.ref] = cm

\* The all-ones matrix of two nodes with node 0 external: only the entry
\* (1, 1) is left.
C20_Witness ==
    /\ cm_pc = "returned" /\ cm_call.op = "apply_boundary_conditions_to_cm"
    /\ cm_call.external_indices = {0}
    /\ cm_before = [i \in 0..1 |-> [j \in 0..1 |-> 1]]
    /\ heap[cm_ret] = [i \in 0..1 |-> [j \in 0..1 |-> IF i = 1 /\ j = 1 THEN 1 ELSE 0]]

(***************************************************************************)
(* Properties of state_by_state2state_by_node                              *)
(***************************************************************************)
\* The state of index i with the high-order bit first: node k (k = 0..N-1)
\* has bit N-1-k of i.
HoliState(i, N) == [k \in 1..N |-> (i \div (2 ^ (N - k))) % 2]

IsSquareMatrix(a) == Len(a.shape) = 2 /\ a.shape[1] = a.shape[2]

\* C8: the validation is tolerance-based: ValueError is raised exactly when
\* the argument is not 2-dimensional, or not square, or has a row whose sum
\* differs from 1 by more than PRECISION; every square matrix whose row sums
\* are all within PRECISION of 1 is converted.
C8_ToleranceBasedValidation ==
    (tpm_pc \in {"validated", "raised", "returned"}) =>
        ( tpm_pc = "raised" <=>
            \/ ~IsSquareMatrix(tpm)
            \/ \E i \in 0..(tpm.shape[1] - 1) :
                  Abs(SumOver(tpm.rows[i], DOMAIN tpm.rows[i]) - One) > PRECISION )

\* C9: for a valid 2^N x 2^N TPM (entries >= 0, rows summing to 1) the
\* conversion returns an array of shape [2] * N + [N] whose entry at the
\* high-order-first state of i and node n is the sum of T[i][j] over the next
\* states j in which node n is on; each of the 2^N cells comes from exactly
\* one row, and every entry lies between 0 and 1.
C9_StateByNodeEntries ==
    LET S == tpm.shape[1]
        N == IntLog2(S)
        Valid == /\ IsSquareMatrix(tpm) /\ S = 2 ^ N
                 /\ \A i, j \in 0..(S - 1) : tpm.rows[i][j] >= 0
                 /\ \A i \in 0..(S - 1) : SumOver(tpm.rows[i], 0..(S - 1)) = One
    IN  (tpm_pc \in {"raised", "returned"} /\ Valid) =>
            /\ tpm_pc = "returned"
            /\ sbn_tpm.shape = [k \in 1..(N + 1) |-> IF k <= N THEN 2 ELSE N]
            /\ DOMAIN sbn_tpm.data =
                  {st \o <<n>> : st \in [1..N -> {0, 1}], n \in 0..(N - 1)}
            /\ \A i \in 0..(S - 1) : \A n \in 0..(N - 1) :
                  sbn_tpm.data[HoliState(i, N) \o <<n>>] =
                      SumOver(tpm.rows[i],
                              {j \in 0..(S - 1) : HoliState(j, N)[n + 1] = 1})
            /\ \A st \in [1..N -> {0, 1}] :
                  Cardinality({i \in 0..(S - 1) : HoliState(i, N) = st}) = 1
            /\ \A idx \in DOMAIN sbn_tpm.data :
                  sbn_tpm.data[idx] >= 0 /\ sbn_tpm.data[idx] <= One

\* The third row of a 4 x 4 TPM splits its mass between the next states 1
\* and 3, as in the docstring's example (0.2 and 0.8 there).
C9_Witness ==
    /\ tpm_pc = "returned" /\ tpm.shape = <<4, 4>>
    /\ tpm.rows[2] = [j \in 0..3 |-> IF j \in {1, 3} THEN One \div 2 ELSE 0]
    /\ tpm.rows[1][1] = One
    /\ sbn_tpm.data[<<1, 0, 0>>] = One \div 2
    /\ sbn_tpm.data[<<1, 0, 1>>] = One
    /\ sbn_tpm.data[<<0, 1, 0>>] = 0
    /\ sbn_tpm.data[<<0, 1, 1>>] = One

(***************************************************************************)
(* Properties of condition_tpm                                             *)
(***************************************************************************)
\* The array condition_tpm returns has as many dimensions as the TPM;
\* the axis of each fixed node has size 1 and every other axis its size in
\* the TPM; each entry is the TPM's entry at the same position with the index
\* of every fixed node replaced by that node's value in the state.
C10_Returned ==
    (cond_pc = "returned") =>
        LET N == Len(cond_state)
            Fixed == Range(fixed_nodes)
            shape == conditioned.shape
        IN  /\ Len(shape) = Len(cond_tpm.shape)
            /\ \A k \in 1..Len(shape) :
                  shape[k] = IF k <= N /\ (k - 1) \in Fixed THEN 1
                             ELSE cond_tpm.shape[k]
            /\ DOMAIN conditioned.data =
                  {idx \in [1..Len(shape) -> 0..N] :
                      \A k \in 1..Len(shape) : idx[k] < shape[k]}
            /\ \A idx \in DOMAIN conditioned.data :
                  conditioned.data[idx] =
                      cond_tpm.data[[k \in 1..Len(shape) |->
                          IF k <= N /\ (k - 1) \in Fixed THEN cond_state[k]
                          ELSE idx[k]]]

\* C10: condition_tpm returns the conditioned array described above, and no
\* step of it changes the TPM it was given.
C10_ConditionedTpm == []C10_Returned /\ [][cond_tpm' = cond_tpm]_vars

\* Node 1 of two is fixed to 1: the entries [0][1] and [1][1] of the TPM
\* differ from those at [0][0] and [1][0] and are the ones returned.
C10_Witness ==
    /\ cond_pc = "returned" /\ fixed_nodes = <<1>> /\ cond_state = <<0, 1>>
    /\ conditioned.shape = <<2, 1, 2>>
    /\ cond_tpm.data[<<0, 1, 0>>] # cond_tpm.data[<<0, 0, 0>>]
    /\ conditioned.data[<<0, 0, 0>>] = cond_tpm.data[<<0, 1, 0>>]
    /\ conditioned.data[<<1, 0, 1>>] = cond_tpm.data[<<1, 1, 1>>]

(***************************************************************************)
(* Properties of marginalize_out                                           *)
(***************************************************************************)
\* C11: marginalize_out returns an array of as many dimensions, in which the
\* node's axis has size 1 and the other axes their size, and each entry is
\* the sum of the entries along that axis divided by the length the axis had
\* (entry * length = sum); an array constant along the axis gives its common
\* values back.
C11_MarginalizeOut ==
    (marg_pc = "returned") =>
        LET k == node_index + 1
            L == marg_tpm.shape[k]
            Along(idx) == [v \in 0..(L - 1) |-> marg_tpm.data[[idx EXCEPT ![k] = v]]]
        IN  /\ Len(marginalized.shape) = Len(marg_tpm.shape)
            /\ \A x \in 1..Len(marg_tpm.shape) :
                  marginalized.shape[x] = IF x = k THEN 1 ELSE marg_tpm.shape[x]
            /\ DOMAIN marginalized.data =
                  {idx \in DOMAIN marg_tpm.data : idx[k] = 0}
            /\ \A idx \in DOMAIN marginalized.data :
                  LET q == marginalized.data[idx]
                  IN  /\ q.den > 0
                      /\ q.num * L = q.den * SumOver(Along(idx), 0..(L - 1))
                      /\ (\A v \in 0..(L - 1) : Along(idx)[v] = Along(idx)[0]) =>
                            q = [num |-> Along(idx)[0], den |-> 1]

\* A 1 x 2 array whose second axis is summed out: the entries 1.0 and 0.5
\* give 0.75, the sum 1.5 over the length 2 (not over the sum).
C11_Witness ==
    /\ marg_pc = "returned" /\ marg_tpm.shape = <<1, 2>> /\ node_index = 1
    /\ marg_tpm.data[<<0, 0>>] = One /\ marg_tpm.data[<<0, 1>>] = One \div 2
    /\ marginalized.shape = <<1, 1>>
    /\ marginalized.data[<<0, 0>>].num * 2 =
          marginalized.data[<<0, 0>>].den * (One + One \div 2)

(***************************************************************************)
(* Properties of uniform_distribution and max_entropy_distribution         *)
(***************************************************************************)
\* The sum of the fractions flat[lo], ..., flat[hi], lo <= hi.
RECURSIVE SumOfFractions(_, _, _)
SumOfFractions(flat, lo, hi) ==
    IF lo = hi THEN flat[lo]
    ELSE LET mid == (lo + hi) \div 2
             low == SumOfFractions(flat, lo, mid)
             high == SumOfFractions(flat, mid + 1, hi)
         IN  PlusFraction(low, high)

\* The sum of the entries of an array of fractions.
Total(a) == SumOfFractions(Ravel(a), 0, Size(a.shape) - 1)

\* C12: uniform_distribution(n) has n axes of size 2 and every entry
\* 1 / 2^n; max_entropy_distribution(S, n) has n axes, of size 2 exactly on
\* the axes in S and 1 elsewhere, and every entry 1 / 2^|S|; the entries of
\* each sum to exactly 1; and for S = all n nodes the two are equal.
C12_Distributions ==
    /\ ("uniform" \in dist_called) =>
          /\ uniform.shape = [k \in 1..dist_n |-> 2]
          /\ Cardinality(DOMAIN uniform.data) = 2 ^ dist_n
          /\ \A idx \in DOMAIN uniform.data :
                uniform.data[idx] = [num |-> 1, den |-> 2 ^ dist_n]
          /\ Total(uniform) = [num |-> 1, den |-> 1]
    /\ ("max_entropy" \in dist_called) =>
          /\ Len(max_entropy.shape) = dist_n
          /\ \A k \in 1..dist_n :
                max_entropy.shape[k] = IF (k - 1) \in node_indices THEN 2 ELSE 1
          /\ \A idx \in DOMAIN max_entropy.data :
                max_entropy.data[idx] = [num |-> 1, den |-> 2 ^ Cardinality(node_indices)]
          /\ Total(max_entropy) = [num |-> 1, den |-> 1]
    /\ (dist_called = {"uniform", "max_entropy"} /\ node_indices = 0..(dist_n - 1)) =>
          max_entropy = uniform

\* Three nodes, the distribution over nodes 0 and 2: shape (2, 1, 2) with
\* entries 1/4, next to the uniform distribution of shape (2, 2, 2).
C12_Witness ==
    /\ dist_called = {"uniform", "max_entropy"}
    /\ dist_n = 3 /\ node_indices = {0, 2}
    /\ max_entropy.shape = <<2, 1, 2>>
    /\ max_entropy.data[<<1, 0, 1>>] = [num |-> 1, den |-> 4]
    /\ uniform.shape = <<2, 2, 2>>
    /\ uniform.data[<<1, 1, 1>>] = [num |-> 1, den |-> 8]

(***************************************************************************)
(* Properties of _hamming_matrix                                           *)
(***************************************************************************)
\* The number of positions in which two tuples differ.
Differing(s, t) == Cardinality({k \in DOMAIN s : s[k] # t[k]})

\* C13: for N >= 1 _hamming_matrix(N) is a 2^N x 2^N matrix whose entry
\* (i, j) is the number of bit positions in which i and j differ, which is
\* the number of nodes on which the states of index i and j differ under the
\* LOLI and under the HOLI convention alike; the matrix is symmetric and is 0
\* exactly on the diagonal.
C13_HammingMatrix ==
    (ham_pc = "returned" /\ ham_N >= 1) =>
        LET I == 0..(2 ^ ham_N - 1)
            D == hamming_matrix
        IN  /\ DOMAIN D = I
            /\ \A i \in I : DOMAIN D[i] = I
            /\ \A i, j \in I :
                  /\ D[i][j].den = 1
                  /\ D[i][j].num =
                        Cardinality({k \in 0..(ham_N - 1) : Bit(i, k) # Bit(j, k)})
                  /\ D[i][j].num = Differing(pyphi_index2state(i, ham_N),
                                             pyphi_index2state(j, ham_N))
                  /\ D[i][j].num = Differing(natural_index2state(i, ham_N),
                                             natural_index2state(j, ham_N))
                  /\ D[i][j] = D[j][i]
                  /\ (D[i][j].num = 0) <=> (i = j)

\* Three nodes: the states 3 = 011 and 5 = 101 differ in two bits, 0 and 7
\* in all three.
C13_Witness ==
    /\ ham_pc = "returned" /\ ham_N = 3
    /\ hamming_matrix[3][5] = [num |-> 2, den |-> 1]
    /\ hamming_matrix[0][7] = [num |-> 3, den |-> 1]
    /\ hamming_matrix[6][6] = [num |-> 0, den |-> 1]

(***************************************************************************)
(* Properties of hamming_emd                                               *)
(***************************************************************************)
\* C14: for every repertoire d (entries >= 0 that add up to 1, any number of
\* axes of size 1) hamming_emd(d, d) is exactly 0.
C14_DistanceToItself ==
    (emd_d1 = emd_d2) =>
        /\ ("d1, d2" \in emd_called) => emd_12 = [num |-> 0, den |-> 1]
        /\ ("d2, d1" \in emd_called) => emd_21 = [num |-> 0, den |-> 1]

\* A repertoire of shape (2, 1, ...) or (1, 2, ...) with its mass spread
\* over two states, compared with itself.
C14_Witness ==
    /\ emd_d1 = emd_d2 /\ "d1, d2" \in emd_called
    /\ Size(emd_d1.shape) >= 2 /\ 1 \in Range(emd_d1.shape)
    /\ \E idx \in DOMAIN emd_d1.data : 0 < emd_d1.data[idx] /\ emd_d1.data[idx] < EmdMass
    /\ emd_12 = [num |-> 0, den |-> 1]

\* C15: for every pair of repertoires d1, d2 of the same shape
\* hamming_emd(d1, d2) equals hamming_emd(d2, d1).
C15_Symmetric ==
    (emd_called = {"d1, d2", "d2, d1"} /\ emd_d1.shape = emd_d2.shape) =>
        emd_12 = emd_21

\* Two different repertoires over two nodes at a distance that is not 0.
C15_Witness ==
    /\ emd_called = {"d1, d2", "d2, d1"}
    /\ emd_d1.shape = <<2, 2>> /\ emd_d2.shape = <<2, 2>>
    /\ emd_d1.data[<<0, 0>>] = EmdMass
    /\ emd_d2.data[<<1, 1>>] = EmdMass
    /\ emd_12 = [num |-> 2, den |-> 1] /\ emd_21 = emd_12

(***************************************************************************)
(* Properties of np_hash                                                   *)
(***************************************************************************)
\* C17: two arrays of the same dtype and shape with the same element at
\* every index have the same np_hash, whether their memory is in C order or
\* in Fortran order; and a second call with the same array returns the same
\* hash as the first.
C17_LayoutIndependent ==
    /\ ( /\ {"a", "b"} \subseteq hash_called
         /\ hash_a.dtype = hash_b.dtype /\ hash_a.shape = hash_b.shape
         /\ \A idx \in IndexTuples(hash_a.shape) :
               ItemAt(hash_a, idx) = ItemAt(hash_b, idx) )
       => hash_of_a = hash_of_b
    /\ ("again" \in hash_called) => hash_again = hash_of_a

\* A 2 x 2 array in C order and the same array in Fortran order: the
\* memories differ, the hashes do not.
C17_Witness ==
    /\ hash_called = {"a", "b", "again"}
    /\ hash_a.shape = <<2, 2>> /\ hash_b.shape = <<2, 2>>
    /\ hash_a.order = "C" /\ hash_b.order = "F"
    /\ hash_a.buffer # hash_b.buffer
    /\ \A idx \in IndexTuples(hash_a.shape) : ItemAt(hash_a, idx) = ItemAt(hash_b, idx)
    /\ hash_of_a = hash_of_b /\ hash_again = hash_of_a

\* The elements of an array object in row-major order, each as its bytes.
ElementSequence(a) ==
    [p \in 0..(Size(a.shape) - 1) |->
        ItemAt(a, CHOOSE idx \in IndexTuples(a.shape) : RavelIndex(idx, a.shape) = p)]

\* C21: two arrays of the same dtype whose row-major element sequences are
\* equal have the same np_hash, whatever their shapes (and memory orders)
\* are; and np_hash(None) is hash(None).
C21_ShapeIndependent ==
    /\ ( /\ {"a", "b"} \subseteq hash_called
         /\ hash_a.dtype = hash_b.dtype
         /\ ElementSequence(hash_a) = ElementSequence(hash_b) )
       => hash_of_a = hash_of_b
    /\ ("None" \in hash_called) => hash_of_none = hash(None)

\* A 2 x 2 array and the array of length 4 of the same elements, not all
\* alike, with the same hash; and np_hash(None) called.
C21_Witness ==
    /\ {"a", "b", "None"} \subseteq hash_called
    /\ hash_a.shape = <<2, 2>> /\ hash_b.shape = <<4>>
    /\ hash_a.dtype = hash_b.dtype
    /\ ElementSequence(hash_a) = ElementSequence(hash_b)
    /\ ElementSequence(hash_a)[0] # ElementSequence(hash_a)[1]
    /\ hash_of_a = hash_of_b
    /\ hash_of_none = hash(None)

(***************************************************************************)
(* Properties of the memoization                                           *)
(***************************************************************************)
\* C18: whatever calls of the memoized bipartition_indices and
\* _hamming_matrix came before and whatever was evicted, a call returns the
\* value the undecorated function returns for its argument, from the store
\* or not.
C18_MemoizationTransparent ==
    (cached_call # NoCachedCall) =>
        cached_return = Undecorated(cached_call.f, cached_call.N)

\* _hamming_matrix(2) answered from a store that also holds another entry,
\* while the store of bipartition_indices holds its own value for 2.
C18_Witness ==
    /\ cached_call = [f |-> "_hamming_matrix", N |-> 2, hit |-> TRUE]
    /\ Len(cache["_hamming_matrix"]) = 2
    /\ Hits(cache["bipartition_indices"], MakeKey(2)) # {}
    /\ cached_return = HammingMatrix(2)
    /\ cached_return[0][3] = [num |-> 2, den |-> 1]

(***************************************************************************)
(* Properties of jsonify.loads                                             *)
(***************************************************************************)
\* The dicts with a "__class__" key in a JSON value, at any depth.
RECURSIVE ClassDictsIn(_)
ClassDictsIn(doc) ==
    (IF doc.kind = "dict" /\ CLASS_KEY \in doc.keys THEN {doc} ELSE {})
        \cup UNION {ClassDictsIn(doc.items[k]) : k \in 1..Len(doc.items)}

\* C19: loading a stream that holds, at any depth, a dict with a
\* "__class__" key whose "__version__" is not the current version fails with
\* JSONVersionError, whatever the class name, and no model object is made
\* from such a dict; a dict with the current version that is loaded becomes
\* a model object made via from_json or the constructor from the dict
\* without its metadata keys.
C19_VersionMismatchFails ==
    (json_pc = "done") =>
        /\ (\E d \in ClassDictsIn(json_string) : d.version # CurrentVersion) =>
              json_result.error = "JSONVersionError"
        /\ \A k \in 1..Len(json_result.constructed) :
              LET c == json_result.constructed[k]
              IN  /\ c.dict.version = CurrentVersion
                  /\ c.object.kind = "object" /\ c.object.class = c.dict.class
                  /\ c.object.via =
                        IF c.dict.class \in has_from_json THEN "from_json" ELSE "constructor"
                  /\ c.object.items[1].keys = {"value"}
                  /\ c.object.items[1].items = c.dict.items

(***************************************************************************)
(* Specifications                                                          *)
(***************************************************************************)
InitBipartition == BiInit /\ IxIdle /\ CmIdle /\ TpmIdle /\ CondIdle /\ MargIdle /\ DistIdle /\ HamIdle /\ EmdIdle /\ HashIdle /\ CacheIdle /\ JsonIdle
SpecBipartition == InitBipartition /\ [][BiNext]_vars

InitIndex == IxInit /\ BiIdle /\ CmIdle /\ TpmIdle /\ CondIdle /\ MargIdle /\ DistIdle /\ HamIdle /\ EmdIdle /\ HashIdle /\ CacheIdle /\ JsonIdle
SpecIndex == InitIndex /\ [][IxNext]_vars

InitCm == CmInit /\ BiIdle /\ IxIdle /\ TpmIdle /\ CondIdle /\ MargIdle /\ DistIdle /\ HamIdle /\ EmdIdle /\ HashIdle /\ CacheIdle /\ JsonIdle
SpecCm == InitCm /\ [][CmNext]_vars

InitTpm == TpmInit /\ BiIdle /\ IxIdle /\ CmIdle /\ CondIdle /\ MargIdle /\ DistIdle /\ HamIdle /\ EmdIdle /\ HashIdle /\ CacheIdle /\ JsonIdle
SpecTpm == InitTpm /\ [][TpmNext]_vars

InitCond == CondInit /\ BiIdle /\ IxIdle /\ CmIdle /\ TpmIdle /\ MargIdle /\ DistIdle /\ HamIdle /\ EmdIdle /\ HashIdle /\ CacheIdle /\ JsonIdle
SpecCond == InitCond /\ [][CondNext]_vars

InitMarg == MargInit /\ BiIdle /\ IxIdle /\ CmIdle /\ TpmIdle /\ CondIdle /\ DistIdle /\ HamIdle /\ EmdIdle /\ HashIdle /\ CacheIdle /\ JsonIdle
SpecMarg == InitMarg /\ [][MargNext]_vars

InitDist == DistInit /\ BiIdle /\ IxIdle /\ CmIdle /\ TpmIdle /\ CondIdle /\ MargIdle /\ HamIdle /\ EmdIdle /\ HashIdle /\ CacheIdle /\ JsonIdle
SpecDist == InitDist /\ [][DistNext]_vars

InitHam == HamInit /\ BiIdle /\ IxIdle /\ CmIdle /\ TpmIdle /\ CondIdle /\ MargIdle /\ DistIdle /\ EmdIdle /\ HashIdle /\ CacheIdle /\ JsonIdle
SpecHam == InitHam /\ [][HamNext]_vars

InitEmd == EmdInit /\ BiIdle /\ IxIdle /\ CmIdle /\ TpmIdle /\ CondIdle /\ MargIdle /\ DistIdle /\ HamIdle /\ HashIdle /\ CacheIdle /\ JsonIdle
SpecEmd == InitEmd /\ [][EmdNext]_vars

InitHash == HashInit /\ BiIdle /\ IxIdle /\ CmIdle /\ TpmIdle /\ CondIdle /\ MargIdle /\ DistIdle /\ HamIdle /\ EmdIdle /\ CacheIdle /\ JsonIdle
SpecHash == InitHash /\ [][HashNext]_vars

InitCache == CacheInit /\ BiIdle /\ IxIdle /\ CmIdle /\ TpmIdle /\ CondIdle /\ MargIdle /\ DistIdle /\ HamIdle /\ EmdIdle /\ HashIdle /\ JsonIdle
SpecCache == InitCache /\ [][CacheNext]_vars

InitJson == JsonInit /\ BiIdle /\ IxIdle /\ CmIdle /\ TpmIdle /\ CondIdle /\ MargIdle /\ DistIdle /\ HamIdle /\ EmdIdle /\ HashIdle /\ CacheIdle
SpecJson == InitJson /\ [][JsonNext]_vars

====
